---- MODULE Spec2Model ----
(***************************************************************************)
(* Model of process_input (examples/sample_code.c, lines 51-78): the       *)
(* length-prefixed "FUZZ" frame parser.  A caller holds one immutable      *)
(* input buffer and calls process_input on it up to MaxCalls times.  One   *)
(* action per statement of the function.                                   *)
(*                                                                         *)
(* size_t is the 64-bit machine word.  A word is kept at full width as     *)
(* four 16-bit limbs, least significant first, so that 8 + data_len wraps  *)
(* exactly where the C addition wraps.  Input indices are the C indices    *)
(* (0-based); input[i] of the C code is input[i+1] of the sequence.        *)
(***************************************************************************)
EXTENDS Integers, Sequences, FiniteSets, TLC

VARIABLES endian, isNull, input, len, pc, data_len, lenRead, tagReads,
          hdrReads, copyReads, live, bufSize, copied, mallocCalls, allocs,
          frees, ret, calls, prev

vars == <<endian, isNull, input, len, pc, data_len, lenRead, tagReads,
          hdrReads, copyReads, live, bufSize, copied, mallocCalls, allocs,
          frees, ret, calls, prev>>

-----------------------------------------------------------------------------
(* Bounds of the model *)

\* longest payload that follows the length field in a generated input
MaxPayload == 3
\* number of calls the caller makes on the same input
MaxCalls == 2

-----------------------------------------------------------------------------
(* Program constants *)

ByteBase == 256
MagicLen == 4
HeaderLen == 8
LenOffset == 4
PayloadOffset == 8
WordBytes == 8

NumLimbs == WordBytes \div 2
LimbBase == ByteBase * ByteBase
LimbMax == LimbBase - 1

\* 'F','U','Z','Z'
Magic == <<70, 85, 90, 90>>

-----------------------------------------------------------------------------
(* size_t arithmetic *)

Word == [1..NumLimbs -> 0..LimbMax]

ZeroWord == [i \in 1..NumLimbs |-> 0]

\* the size_t holding the natural number n (n below LimbBase^2)
ToWord(n) == [i \in 1..NumLimbs |->
                 IF i = 1 THEN n % LimbBase
                 ELSE IF i = 2 THEN (n \div LimbBase) % LimbBase
                 ELSE 0]

IsZero(w) == \A i \in 1..NumLimbs : w[i] = 0

\* the word fits one limb, so that its value is w[1]
IsSmall(w) == \A i \in 2..NumLimbs : w[i] = 0

RECURSIVE CarryIn(_, _, _)
\* carry into limb i of the addition w + k
CarryIn(w, k, i) ==
    IF i = 1 THEN k
    ELSE (w[i-1] + CarryIn(w, k, i-1)) \div LimbBase

\* w + k as size_t computes it: modulo 2^64
WordAdd(w, k) == [i \in 1..NumLimbs |-> (w[i] + CarryIn(w, k, i)) % LimbBase]

\* the mathematical sum w + k does not fit size_t
AddWraps(w, k) == CarryIn(w, k, NumLimbs + 1) > 0

RECURSIVE GeqFrom(_, _, _)
\* a >= b on limbs i..1, most significant first
GeqFrom(a, b, i) ==
    IF i = 0 THEN TRUE
    ELSE IF a[i] # b[i] THEN a[i] > b[i]
    ELSE GeqFrom(a, b, i-1)

\* unsigned comparison a >= b
WordGeq(a, b) == GeqFrom(a, b, NumLimbs)

-----------------------------------------------------------------------------
(* Byte order of the platform, for the size_t read at input + 4 *)

Reverse(s) == [i \in 1..Len(s) |-> s[Len(s) + 1 - i]]

\* the size_t that the WordBytes bytes raw denote in byte order e
Decode(raw, e) ==
    LET le == IF e = "little" THEN raw ELSE Reverse(raw)
    IN  [i \in 1..NumLimbs |-> le[2*i - 1] + ByteBase * le[2*i]]

\* the WordBytes bytes that hold the size_t w in byte order e
Encode(w, e) ==
    LET le == [i \in 1..WordBytes |->
                  IF i % 2 = 1 THEN w[(i + 1) \div 2] % ByteBase
                  ELSE w[i \div 2] \div ByteBase]
    IN  IF e = "little" THEN le ELSE Reverse(le)

-----------------------------------------------------------------------------
(* The statements of process_input *)

\* line 52: input == NULL || len == 0
NullOrEmpty(null, n) == null \/ n = 0

\* lines 57-58 with len >= 4 tested last instead of first: bytes are
\* compared before the length is known to cover them
MagicReadsLenLast(inp, n) ==
    {i \in 0..(MagicLen - 1) :
        \A j \in 0..(i - 1) : j < n /\ inp[j + 1] = Magic[j + 1]}

\* lines 57-58: the indices the && chain reads; a byte is read only when
\* len >= 4 and every byte before it matched
MagicReads(inp, n) ==
    IF n >= MagicLen
    THEN {i \in 0..(MagicLen - 1) : \A j \in 0..(i - 1) : inp[j + 1] = Magic[j + 1]}
    ELSE {}

\* lines 57-58: len >= 4 && input[0] == 'F' && ... && input[3] == 'Z'
MagicOk(inp, n) ==
    /\ n >= MagicLen
    /\ \A j \in 0..(MagicLen - 1) : inp[j + 1] = Magic[j + 1]

\* line 61 with the bound of the tag in place of the bound of the header
HeaderReadableTagOnly(n) == n >= MagicLen

\* line 61: len >= 8
HeaderReadable(n) == n >= HeaderLen

\* line 62: the indices that *(size_t*)(input + 4) reads
LengthFieldIndices == LenOffset..(LenOffset + WordBytes - 1)

\* line 65 without the data_len > 0 test
LengthOkAllowZero(n, dl) == WordGeq(ToWord(n), WordAdd(dl, HeaderLen))

\* line 65: data_len > 0 && len >= 8 + data_len, the sum taken in size_t
LengthOk(n, dl) ==
    /\ ~IsZero(dl)
    /\ WordGeq(ToWord(n), WordAdd(dl, HeaderLen))

\* line 66: malloc(data_len)
AllocSize(dl) == dl

\* line 68: memcpy reads dl bytes from input + 8; every one inside the input?
CopyInBounds(n, dl) == IsSmall(dl) /\ PayloadOffset + dl[1] <= n

\* line 68 copying data_len + 1 bytes
CopyIndicesOneMore(n, dl) ==
    IF CopyInBounds(n, dl)
    THEN PayloadOffset..(PayloadOffset + dl[1])
    ELSE PayloadOffset..n

\* line 68: the indices memcpy reads; a copy that leaves the input is
\* followed up to the first index outside it (index len)
CopyIndices(n, dl) ==
    IF CopyInBounds(n, dl)
    THEN PayloadOffset..(PayloadOffset + dl[1] - 1)
    ELSE PayloadOffset..n

\* line 68: the bytes of the input that memcpy stores in the scratch buffer
CopiedBytes(inp, n, dl) ==
    LET last == IF CopyInBounds(n, dl) THEN PayloadOffset + dl[1] ELSE n
    IN  IF last >= PayloadOffset THEN SubSeq(inp, PayloadOffset + 1, last)
        ELSE << >>

\* line 70 left out: the scratch allocation stays live
AfterFreeLeak(l) == l

\* line 70: free(buffer) releases the scratch allocation
AfterFree(l) == l - 1

\* the three statuses: lines 53, 71, 77
StatusNull == 0 - 1
StatusOk == 0
StatusReject == 1
\* ret before the call has returned
NoStatus == 0 - 2

-----------------------------------------------------------------------------
(* Inputs the caller supplies *)

Tags == {Magic, <<70, 85, 90, 65>>, <<88, 85, 90, 90>>}

\* 'A','B','C'
PayloadBytes == {65, 66, 67}

Payloads == UNION {[1..n -> PayloadBytes] : n \in 0..MaxPayload}

\* 2^64 - k for 1 <= k <= LimbBase
WordMinus(k) == [i \in 1..NumLimbs |-> IF i = 1 THEN LimbBase - k ELSE LimbMax]

\* declared lengths: small ones, values whose sum with 8 wraps or just does
\* not, and values with a single high byte set
FieldWords ==
    {ToWord(n) : n \in 0..(MaxPayload + 1)}
    \cup {WordMinus(1), WordMinus(4), WordMinus(8), WordMinus(9)}
    \cup {ToWord(ByteBase), ToWord(LimbBase),
          [i \in 1..NumLimbs |-> IF i = NumLimbs THEN ByteBase ELSE 0]}

Frames(e) == {t \o Encode(w, e) \o p : t \in Tags, w \in FieldWords, p \in Payloads}

\* every frame and every truncation of one
Inputs(e) == UNION {{SubSeq(f, 1, n) : n \in 0..Len(f)} : f \in Frames(e)}

\* len passed along with a NULL input
NullLens == {0, MagicLen - 1, HeaderLen + WordBytes}

\* bytes that a read outside the input may yield
OOBBytes == {0, 1, 255}

NoCall == [valid |-> FALSE, ret |-> NoStatus, lenRead |-> FALSE,
           dl |-> ZeroWord, mal |-> "none"]

\* outcome of the scratch allocation in the current call
MallocOutcome ==
    IF mallocCalls = 0 THEN "none" ELSE IF allocs > 0 THEN "ok" ELSE "fail"

Init ==
    /\ endian \in {"little", "big"}
    /\ isNull \in BOOLEAN
    /\ IF isNull THEN input = << >> /\ len \in NullLens
       ELSE input \in Inputs(endian) /\ len = Len(input)
    /\ pc = "entry"
    /\ data_len = ZeroWord
    /\ lenRead = FALSE
    /\ tagReads = {}
    /\ hdrReads = {}
    /\ copyReads = {}
    /\ live = 0
    /\ bufSize = ZeroWord
    /\ copied = << >>
    /\ mallocCalls = 0
    /\ allocs = 0
    /\ frees = 0
    /\ ret = NoStatus
    /\ calls = 1
    /\ prev = NoCall

-----------------------------------------------------------------------------
(* One action per statement *)

Return(status) == ret' = status /\ pc' = "done"

\* lines 52-54
NullCheck ==
    /\ pc = "entry"
    /\ IF NullOrEmpty(isNull, len) THEN Return(StatusNull)
       ELSE pc' = "magic" /\ ret' = ret
    /\ UNCHANGED <<endian, isNull, input, len, data_len, lenRead, tagReads,
                   hdrReads, copyReads, live, bufSize, copied, mallocCalls,
                   allocs, frees, calls, prev>>

\* lines 57-58, and line 77 when the condition is false
CheckMagic ==
    /\ pc = "magic"
    /\ tagReads' = MagicReads(input, len)
    /\ IF MagicOk(input, len) THEN pc' = "header" /\ ret' = ret
       ELSE Return(StatusReject)
    /\ UNCHANGED <<endian, isNull, input, len, data_len, lenRead,
                   hdrReads, copyReads, live, bufSize, copied, mallocCalls,
                   allocs, frees, calls, prev>>

\* lines 61-62, and line 77 when len < 8.  A byte of the length field that
\* lies outside the input has an arbitrary value.  (The access is taken to
\* be one the platform performs: alignment of input + 4 is not modelled.)
ReadLength ==
    /\ pc = "header"
    /\ IF HeaderReadable(len)
       THEN \E g \in [{i \in LengthFieldIndices : i >= len} -> OOBBytes] :
               LET raw == [k \in 1..WordBytes |->
                              IF LenOffset + k - 1 < len
                              THEN input[LenOffset + k]
                              ELSE g[LenOffset + k - 1]]
               IN  /\ data_len' = Decode(raw, endian)
                   /\ lenRead' = TRUE
                   /\ hdrReads' = LengthFieldIndices
                   /\ pc' = "check"
                   /\ ret' = ret
       ELSE /\ Return(StatusReject)
            /\ UNCHANGED <<data_len, lenRead, hdrReads>>
    /\ UNCHANGED <<endian, isNull, input, len, tagReads, copyReads, live,
                   bufSize, copied, mallocCalls, allocs, frees, calls, prev>>

\* line 65, and line 77 when the condition is false
CheckLength ==
    /\ pc = "check"
    /\ IF LengthOk(len, data_len) THEN pc' = "malloc" /\ ret' = ret
       ELSE Return(StatusReject)
    /\ UNCHANGED <<endian, isNull, input, len, data_len, lenRead, tagReads,
                   hdrReads, copyReads, live, bufSize, copied, mallocCalls,
                   allocs, frees, calls, prev>>

\* lines 66-67 with malloc returning a buffer.  No size is excluded: the
\* buffer is only written and freed, so a build may drop the malloc/free
\* pair and take the non-NULL branch whatever data_len is.
MallocOk ==
    /\ pc = "malloc"
    /\ mallocCalls' = mallocCalls + 1
    /\ allocs' = allocs + 1
    /\ live' = live + 1
    /\ bufSize' = AllocSize(data_len)
    /\ pc' = "memcpy"
    /\ UNCHANGED <<endian, isNull, input, len, data_len, lenRead, tagReads,
                   hdrReads, copyReads, copied, frees, ret, calls, prev>>

\* lines 66-67 with malloc returning NULL, then line 77
MallocFail ==
    /\ pc = "malloc"
    /\ mallocCalls' = mallocCalls + 1
    /\ Return(StatusReject)
    /\ UNCHANGED <<endian, isNull, input, len, data_len, lenRead, tagReads,
                   hdrReads, copyReads, live, bufSize, copied, allocs, frees,
                   calls, prev>>

\* line 68.  A copy that reads outside the input is undefined: the call
\* either goes on or the process dies.
Memcpy ==
    /\ pc = "memcpy"
    /\ copyReads' = CopyIndices(len, data_len)
    /\ copied' = CopiedBytes(input, len, data_len)
    /\ IF CopyInBounds(len, data_len) THEN pc' = "free"
       ELSE pc' \in {"free", "crashed"}
    /\ UNCHANGED <<endian, isNull, input, len, data_len, lenRead, tagReads,
                   hdrReads, live, bufSize, mallocCalls, allocs, frees, ret,
                   calls, prev>>

\* lines 70-71
FreeAndReturn ==
    /\ pc = "free"
    /\ live' = AfterFree(live)
    /\ frees' = frees + 1
    /\ Return(StatusOk)
    /\ UNCHANGED <<endian, isNull, input, len, data_len, lenRead, tagReads,
                   hdrReads, copyReads, bufSize, copied, mallocCalls, allocs,
                   calls, prev>>

\* the caller notes the outcome and calls process_input again on the same
\* input; the locals of the new call start afresh, the heap is kept
CallAgain ==
    /\ pc = "done"
    /\ calls < MaxCalls
    /\ calls' = calls + 1
    /\ prev' = [valid |-> TRUE, ret |-> ret, lenRead |-> lenRead,
                dl |-> data_len, mal |-> MallocOutcome]
    /\ pc' = "entry"
    /\ data_len' = ZeroWord
    /\ lenRead' = FALSE
    /\ tagReads' = {}
    /\ hdrReads' = {}
    /\ copyReads' = {}
    /\ bufSize' = ZeroWord
    /\ copied' = << >>
    /\ mallocCalls' = 0
    /\ allocs' = 0
    /\ frees' = 0
    /\ ret' = NoStatus
    /\ UNCHANGED <<endian, isNull, input, len, live>>

Next ==
    \/ NullCheck
    \/ CheckMagic
    \/ ReadLength
    \/ CheckLength
    \/ MallocOk
    \/ MallocFail
    \/ Memcpy
    \/ FreeAndReturn
    \/ CallAgain

Spec == Init /\ [][Next]_vars

-----------------------------------------------------------------------------
(* Properties *)

\* the input starts with the four tag bytes
TagIsMagic ==
    ~isNull /\ len >= MagicLen /\ SubSeq(input, 1, MagicLen) = Magic

\* 8 + dl, taken in the integers, is more than the input has
Exceeds(dl) == ~(IsSmall(dl) /\ HeaderLen + dl[1] <= len)

AllReads == tagReads \cup hdrReads \cup copyReads

\* C1: an input that holds a length field whose value makes
\* 8 + declared_length wrap is rejected with status 1, and the call neither
\* allocates nor copies: the length check does not pass through wrap-around.
C1_WrapRejected ==
    ( /\ len >= LenOffset + WordBytes
      /\ lenRead
      /\ AddWraps(data_len, HeaderLen) ) =>
        /\ pc \notin {"malloc", "memcpy", "free", "crashed"}
        /\ mallocCalls = 0
        /\ copyReads = {}
        /\ (pc = "done" => ret = StatusReject)

\* C2: for the input FUZZ, the 8-byte encoding of N >= 1, then N payload
\* bytes, the call returns 0 unless the allocation fails, and the bytes
\* copied into the scratch buffer are those N payload bytes that follow the
\* length field.
C2_PayloadCopied ==
    \A n \in 1..MaxPayload :
        ( /\ pc = "done"
          /\ TagIsMagic
          /\ len = MagicLen + WordBytes + n
          /\ SubSeq(input, MagicLen + 1, MagicLen + WordBytes)
                = Encode(ToWord(n), endian)
          /\ MallocOutcome # "fail" )
        => /\ ret = StatusOk
           /\ copied = SubSeq(input, MagicLen + WordBytes + 1, len)

\* C3: with tag FUZZ, declared length N >= 1 and len >= 8 + N without wrap,
\* the call returns 0 unless the allocation fails, the scratch buffer has
\* size exactly N, and the copy reads exactly the indices 8 .. 8+N-1, all
\* of them below len, and stores exactly N bytes.
C3_CopyWithinInput ==
    ( /\ TagIsMagic
      /\ lenRead
      /\ ~IsZero(data_len)
      /\ ~Exceeds(data_len) )
    => /\ pc # "crashed"
       /\ \A i \in copyReads : i < len
       /\ (pc \in {"free", "done"} /\ MallocOutcome = "ok") =>
             /\ bufSize = data_len
             /\ copyReads = PayloadOffset..(PayloadOffset + data_len[1] - 1)
             /\ Cardinality(copyReads) = data_len[1]
             /\ Len(copied) = data_len[1]
       /\ (pc = "done" /\ MallocOutcome # "fail") => ret = StatusOk

C3_Witness ==
    /\ pc = "done"
    /\ TagIsMagic
    /\ lenRead
    /\ IsSmall(data_len)
    /\ data_len[1] >= 2
    /\ len > HeaderLen + data_len[1]
    /\ ret = StatusOk
    /\ Len(copied) = data_len[1]

\* C4: the status is one of -1, 0, 1; it is -1 exactly for a null or empty
\* input; it is 0 only when a payload was validated, allocated and copied;
\* it is 1 in every other case, among them a declared length that exceeds
\* the available input.
C4_ThreeWayStatus ==
    pc = "done" =>
        /\ ret \in {StatusNull, StatusOk, StatusReject}
        /\ (ret = StatusNull) <=> (isNull \/ len = 0)
        /\ (ret = StatusOk) =>
              /\ TagIsMagic
              /\ lenRead
              /\ ~IsZero(data_len)
              /\ ~Exceeds(data_len)
              /\ allocs = 1
              /\ Len(copied) = data_len[1]

\* C5: when the call returns no scratch allocation is live, the call has
\* allocated at most once and released what it allocated exactly once, and
\* a call on an input that is to be rejected early (empty, len < 4, tag
\* mismatch, len < 8, declared length zero or exceeding the input) has not
\* allocated.
C5_ScopedAllocation ==
    pc = "done" =>
        /\ live = 0
        /\ mallocCalls <= 1
        /\ frees = allocs
        /\ ( \/ isNull
             \/ len < HeaderLen
             \/ ~TagIsMagic
             \/ (lenRead /\ (IsZero(data_len) \/ Exceeds(data_len))) )
           => allocs = 0

\* C6: an input shorter than 4 bytes, the empty one included, is rejected
\* (-1 when empty, 1 otherwise), without any allocation and without a read
\* at an index >= len.
C6_ShortInputRejected ==
    len < MagicLen =>
        /\ pc \notin {"header", "check", "malloc", "memcpy", "free", "crashed"}
        /\ mallocCalls = 0
        /\ \A i \in AllReads : i < len
        /\ pc = "done" =>
              /\ ret \in {StatusNull, StatusReject}
              /\ ~isNull => ((ret = StatusNull) <=> (len = 0))

C6_Witness ==
    /\ pc = "done"
    /\ ~isNull
    /\ len = MagicLen - 1
    /\ input[1] = Magic[1]
    /\ ret = StatusReject

\* C7: an input that starts with FUZZ and has length 4, 5, 6 or 7 is
\* rejected with status 1 and only the indices 0..3 are read: the length
\* field is not read.
C7_ShortHeaderRejected ==
    (TagIsMagic /\ len < HeaderLen) =>
        /\ ~lenRead
        /\ hdrReads = {}
        /\ copyReads = {}
        /\ tagReads \subseteq 0..(MagicLen - 1)
        /\ pc \notin {"check", "malloc", "memcpy", "free", "crashed"}
        /\ pc = "done" => (ret = StatusReject /\ tagReads = 0..(MagicLen - 1))

C7_Witness ==
    /\ pc = "done"
    /\ TagIsMagic
    /\ len = HeaderLen - 1
    /\ ret = StatusReject

\* C8: the call returns 0 only if the first four bytes are FUZZ and the
\* declared length is nonzero; a non-empty input with another tag, and an
\* input with tag and header whose declared length is 0, is rejected with
\* status 1 and without any allocation.
C8_SuccessNeedsTagAndLength ==
    /\ (pc = "done" /\ ret = StatusOk) =>
          (TagIsMagic /\ lenRead /\ ~IsZero(data_len))
    /\ (~isNull /\ len > 0 /\ ~TagIsMagic) =>
          /\ mallocCalls = 0
          /\ pc \in {"entry", "magic", "done"}
          /\ pc = "done" => ret = StatusReject
    /\ (TagIsMagic /\ lenRead /\ IsZero(data_len)) =>
          /\ mallocCalls = 0
          /\ pc \in {"check", "done"}
          /\ pc = "done" => ret = StatusReject

C8_Witness ==
    /\ pc = "done"
    /\ TagIsMagic
    /\ len >= MagicLen + WordBytes
    /\ lenRead
    /\ IsZero(data_len)
    /\ ret = StatusReject

C10_LengthFieldInBounds ==
    hdrReads # {} =>
        /\ len >= LenOffset + WordBytes
        /\ \A i \in hdrReads : i < len

====
